---- MODULE Spec2Model ----
(***************************************************************************)
(* Location-gated time clock (test_timeclock/app.py, utils.py).            *)
(*                                                                         *)
(* app.py is a Streamlit script: every user event re-runs the script from  *)
(* the top in the browser session that raised it ("request cycle").  The   *)
(* state is the three database tables, the per-session st.session_state,   *)
(* and the position and locals of a run in progress.  Browser sessions    *)
(* run in their own threads, so runs of different sessions interleave.  A  *)
(* run is two steps: the registration check (lines 96-143, one database    *)
(* connection), then location handling and the workflow action (lines      *)
(* 145-288; the action's statements share one connection).  Spec           *)
(* interleaves the steps of different sessions; SeqSpec lets a run finish  *)
(* before another starts.                                                  *)
(*                                                                         *)
(* Widget values are inputs of the run that reads them.  A run that only   *)
(* displays a widget writes nothing to the tables, so every value a widget *)
(* can return is available to the next run of the session.                 *)
(*                                                                         *)
(* Optional values (SQL NULL, Python None, a missing session_state key)    *)
(* are sequences of length 0 or 1.  Coordinates are whole degrees.         *)
(***************************************************************************)
EXTENDS Integers, Sequences, FiniteSets, TLC

VARIABLES
    LocationCustomerMapping,  \* table: static geofence boxes
    SubContractorEmployees,   \* table: worker records
    TimeClock,                \* table: session rows
    clock,                    \* datetime.now(), as a counter
    pc,                       \* per session: position of the script run
    session_state,            \* per session: st.session_state
    run,                      \* per session: locals of the run in progress
    connections               \* per session: the connections its runs acquired

vars == <<LocationCustomerMapping, SubContractorEmployees, TimeClock, clock,
          pc, session_state, run, connections>>

----------------------------------------------------------------------------
(* Bounds and input domains *)

MaxTime == 3

Sessions == {"d1", "d2"}
Subs == {"ACME"}
Names == {"Jane Doe"}
Numbers == {"555-1234", "555-0000"}

NULL == <<>>
Some(x) == <<x>>

\* Geolocation readings offered by the provider: inside Yard A, outside every
\* box, and on the equator inside the second site.
Points == {<<15, -95>>, <<25, -95>>, <<0, -95>>}

Site(n, a, b, c, d) ==
    [customer_name |-> n, min_latitude |-> a, max_latitude |-> b,
     min_longitude |-> c, max_longitude |-> d]

\* Contents of LocationCustomerMapping: no site, "Yard A" with min_longitude
\* the numerically smaller bound, and a table whose rows store the
\* numerically larger longitude in min_longitude.
SiteTables ==
    { << >>,
      << Site("Yard A", 10, 20, -100, -90) >>,
      << Site("Yard A", 10, 20, -90, -100), Site("Depot", -5, 5, -90, -100) >> }

Max(S) == CHOOSE x \in S : \A y \in S : x >= y
Min(S) == CHOOSE x \in S : \A y \in S : x <= y

----------------------------------------------------------------------------
(* db_config.py.  Connection objects are told apart by their state only, so  *)
(* the connections of a session are a set of connection states.             *)

\* DBConnection.__enter__: pyodbc.connect() returns an open connection.
DBConnection_enter == [closed |-> FALSE]

\* DBConnection.__exit__: commit, then close() under `if self.conn.closed`.
DBConnection_exit(conn) ==
    IF conn.closed THEN [conn EXCEPT !.closed = TRUE] ELSE conn

\* `with get_connection() as conn:` has run to the end of its block, normally
\* or by an exception of a statement.
WithConnection(conns) == conns \cup {DBConnection_exit(DBConnection_enter)}

----------------------------------------------------------------------------
(* utils.py *)

\* Mutant: the longitude test takes min_longitude for the smaller bound.
RowContains_Ascending(row, lat, lon) ==
    /\ row.min_latitude <= lat /\ lat <= row.max_latitude
    /\ row.min_longitude <= lon /\ lon <= row.max_longitude

\* Mutant: the latitude is not tested.
RowContains_NoLatitude(row, lat, lon) ==
    row.min_longitude >= lon /\ lon >= row.max_longitude

\* The row test of the loop in find_customer_from_location.
RowContains(row, lat, lon) ==
    /\ row.min_latitude <= lat /\ lat <= row.max_latitude
    /\ row.min_longitude >= lon /\ lon >= row.max_longitude

\* First row, in fetch order, whose test passes; None when no row passes.
find_customer_from_location(rows, lat, lon) ==
    LET hits == {i \in DOMAIN rows : RowContains(rows[i], lat, lon)}
    IN  IF hits = {} THEN NULL ELSE Some(rows[Min(hits)].customer_name)

----------------------------------------------------------------------------
(* SQL statements of app.py *)

\* SELECT Employee, Number FROM SubContractorEmployees WHERE Cookies = ?
EmployeesByCookie(tbl, dev) == {i \in DOMAIN tbl : tbl[i].Cookies = dev}

\* SELECT Employee, Cookies FROM SubContractorEmployees WHERE Number = ?
EmployeesByNumber(tbl, num) == {i \in DOMAIN tbl : tbl[i].Number = num}

\* ... FROM TimeClock WHERE Number = ? AND ClockOut IS NULL
OpenRows(tc, num) == {i \in DOMAIN tc : tc[i].Number = num /\ tc[i].ClockOut = NULL}

\* Mutant: the lookup tests ClockOut IS NOT NULL.
ActiveSession_ClosedRows(tc, num) ==
    LET closed == {i \in DOMAIN tc : tc[i].Number = num /\ tc[i].ClockOut # NULL}
    IN  IF closed = {} THEN NULL
        ELSE Some(Max({tc[i].ClockIn : i \in closed}))

\* SELECT TOP 1 ClockIn ... ORDER BY ClockIn DESC; fetchone()
ActiveSession(tc, num) ==
    IF OpenRows(tc, num) = {} THEN NULL
    ELSE Some(Max({tc[i].ClockIn : i \in OpenRows(tc, num)}))

\* Mutant: the UPDATE lacks AND ClockOut IS NULL.
ClockOutUpdate_AllRows(tc, now, num) ==
    [i \in DOMAIN tc |->
        IF tc[i].Number = num THEN [tc[i] EXCEPT !.ClockOut = Some(now)] ELSE tc[i]]

\* Mutant: the UPDATE closes only the most recent open row.
ClockOutUpdate_Top1(tc, now, num) ==
    LET open == {i \in DOMAIN tc : tc[i].Number = num /\ tc[i].ClockOut = NULL}
    IN  [i \in DOMAIN tc |->
            IF open # {} /\ i = Max(open)
            THEN [tc[i] EXCEPT !.ClockOut = Some(now)]
            ELSE tc[i]]

\* UPDATE TimeClock SET ClockOut = ? WHERE Number = ? AND ClockOut IS NULL
ClockOutUpdate(tc, now, num) ==
    [i \in DOMAIN tc |->
        IF tc[i].Number = num /\ tc[i].ClockOut = NULL
        THEN [tc[i] EXCEPT !.ClockOut = Some(now)]
        ELSE tc[i]]

\* Mutant: the INSERT is skipped while the number has an open row.
InsertTimeClock_IfNoneOpen(tc, sub, employee, num, now, loc, dev) ==
    IF \E i \in DOMAIN tc : tc[i].Number = num /\ tc[i].ClockOut = NULL
    THEN tc
    ELSE Append(tc, [SubContractor |-> sub, Employee |-> employee, Number |-> num,
                     ClockIn |-> now, ClockOut |-> NULL,
                     Lat |-> loc[1], Lon |-> loc[2], Cookie |-> dev])

\* Mutant: the row is inserted with ClockOut set to the clock-in time.
InsertTimeClock_Closed(tc, sub, employee, num, now, loc, dev) ==
    Append(tc, [SubContractor |-> sub, Employee |-> employee, Number |-> num,
                ClockIn |-> now, ClockOut |-> Some(now),
                Lat |-> loc[1], Lon |-> loc[2], Cookie |-> dev])

\* INSERT INTO TimeClock (SubContractor, Employee, Number, ClockIn, Lat, Lon, Cookie)
InsertTimeClock(tc, sub, employee, num, now, loc, dev) ==
    Append(tc, [SubContractor |-> sub, Employee |-> employee, Number |-> num,
                ClockIn |-> now, ClockOut |-> NULL,
                Lat |-> loc[1], Lon |-> loc[2], Cookie |-> dev])

\* Mutant: the INSERT leaves the Cookies column out.
InsertEmployee_NoCookie(tbl, sub, employee, num, dev) ==
    Append(tbl, [SubContractor |-> sub, Employee |-> employee,
                 Number |-> num, Cookies |-> ""])

\* INSERT INTO SubContractorEmployees (SubContractor, Employee, Number, Cookies)
InsertEmployee(tbl, sub, employee, num, dev) ==
    Append(tbl, [SubContractor |-> sub, Employee |-> employee,
                 Number |-> num, Cookies |-> dev])

\* Mutant: the device is bound by inserting a second record for the number.
RebindDevice_Insert(tbl, dev, num) ==
    LET i == CHOOSE k \in DOMAIN tbl : tbl[k].Number = num
    IN  Append(tbl, [tbl[i] EXCEPT !.Cookies = dev])

\* UPDATE SubContractorEmployees SET Cookies = ? WHERE Number = ?
RebindDevice(tbl, dev, num) ==
    [i \in DOMAIN tbl |->
        IF tbl[i].Number = num THEN [tbl[i] EXCEPT !.Cookies = dev] ELSE tbl[i]]

----------------------------------------------------------------------------
(* Script state *)

\* The device_id cookie of a browser session (a uuid4 kept in the cookie).
device_id(s) == s

\* st.session_state before the first run: no key is set.  registered and
\* clocked_in are only read with .get(), so a missing key reads as FALSE.
NoSessionState ==
    [registered |-> FALSE, clocked_in |-> FALSE, user_name |-> "",
     user_number |-> "", fetch_location |-> NULL, loc |-> NULL, customer |-> NULL]

\* Script locals; they do not outlive the run.
NoRun ==
    [sub |-> "", db_error |-> FALSE, active_defined |-> FALSE,
     active_session |-> NULL]

\* st.text_input: the text entered, "" while the field is empty.
TextInput(values) == values \cup {""}

\* The phone numbers a session's user types into the registration form: the
\* first may type either, the second its own.
PhoneNumbers(s) == IF s = "d1" THEN Numbers ELSE {"555-1234"}

\* streamlit_geolocation(): a reading, or none while the device has not
\* supplied one.
Geolocation(s) == Points \cup {NULL}

\* `location and ... and lat and lon`: None and 0 are falsy.
Resolved(location) == location # NULL /\ location[1] # 0 /\ location[2] # 0

\* No run of the session is in progress: its last run ended ("idle"), or
\* was stopped for want of a subcontractor name ("stopped").
AtRest(s) == pc[s] \in {"idle", "stopped"}

\* The run ends (script end, st.stop(), st.rerun() or the handled exception).
EndRun(s) ==
    /\ pc' = [pc EXCEPT ![s] = "idle"]
    /\ run' = [run EXCEPT ![s] = NoRun]

Init ==
    /\ LocationCustomerMapping \in SiteTables
    /\ SubContractorEmployees = <<>>
    /\ TimeClock = <<>>
    /\ clock = 0
    /\ pc = [s \in Sessions |-> "idle"]
    /\ session_state = [s \in Sessions |-> NoSessionState]
    /\ run = [s \in Sessions |-> NoRun]
    /\ connections = [s \in Sessions |-> {}]

----------------------------------------------------------------------------
(* Subcontractor name, lines 101-108 *)

\* Mutant: the run goes on to the registration check without a name.
SubMissing_Proceeds(s) ==
    /\ AtRest(s)
    /\ "" \in TextInput(Subs)
    /\ connections' = [connections EXCEPT ![s] = WithConnection(@)]
    /\ session_state' = [session_state EXCEPT ![s].registered = FALSE]
    /\ run' = [run EXCEPT ![s] = NoRun]
    /\ pc' = [pc EXCEPT ![s] = "location"]
    /\ UNCHANGED <<LocationCustomerMapping, SubContractorEmployees, TimeClock, clock>>

\* No subcontractor name: st.error and st.stop() at line 108.
SubMissing(s) ==
    /\ AtRest(s)
    /\ UNCHANGED connections
    /\ "" \in TextInput(Subs)
    /\ pc' = [pc EXCEPT ![s] = "stopped"]
    /\ run' = [run EXCEPT ![s] = NoRun]
    /\ UNCHANGED <<LocationCustomerMapping, SubContractorEmployees, TimeClock,
                   clock, session_state>>

----------------------------------------------------------------------------
(* User registration check, lines 111-143, of a run with a subcontractor  *)
(* name                                                                    *)

IdentifyFound(s) ==
    /\ AtRest(s)
    /\ connections' = [connections EXCEPT ![s] = WithConnection(@)]
    /\ \E sub \in TextInput(Subs) \ {""} :
       \E i \in EmployeesByCookie(SubContractorEmployees, device_id(s)) :
         LET user_data == SubContractorEmployees[i]
             active_session == ActiveSession(TimeClock, user_data.Number)
         IN  /\ session_state' = [session_state EXCEPT ![s] =
                    [@ EXCEPT !.registered = TRUE,
                              !.user_name = user_data.Employee,
                              !.user_number = user_data.Number,
                              !.clocked_in = (active_session # NULL)]]
             /\ run' = [run EXCEPT ![s] =
                    [NoRun EXCEPT !.sub = sub,
                                  !.active_defined = TRUE,
                                  !.active_session = active_session]]
    /\ pc' = [pc EXCEPT ![s] = "location"]
    /\ UNCHANGED <<LocationCustomerMapping, SubContractorEmployees, TimeClock, clock>>

IdentifyNotFound(s) ==
    /\ AtRest(s)
    /\ connections' = [connections EXCEPT ![s] = WithConnection(@)]
    /\ EmployeesByCookie(SubContractorEmployees, device_id(s)) = {}
    /\ \E sub \in TextInput(Subs) \ {""} :
         run' = [run EXCEPT ![s] = [NoRun EXCEPT !.sub = sub]]
    /\ session_state' = [session_state EXCEPT ![s].registered = FALSE]
    /\ pc' = [pc EXCEPT ![s] = "location"]
    /\ UNCHANGED <<LocationCustomerMapping, SubContractorEmployees, TimeClock, clock>>

\* Mutant: the handler leaves the registration status as it was.
RegistrationCheckFailed_KeepsStatus(ss) == ss

\* `except Exception` of the registration check, lines 141-143.
RegistrationCheckFailed(ss) == [ss EXCEPT !.registered = FALSE]

\* The connection or the first SELECT raises: nothing was loaded.
IdentifyDbError(s) ==
    /\ AtRest(s)
    /\ \E connected \in BOOLEAN :
         connections' = [connections EXCEPT ![s] =
                            IF connected THEN WithConnection(@) ELSE @]
    /\ \E sub \in TextInput(Subs) \ {""} :
         run' = [run EXCEPT ![s] = [NoRun EXCEPT !.sub = sub, !.db_error = TRUE]]
    /\ session_state' = [session_state EXCEPT ![s] = RegistrationCheckFailed(@)]
    /\ pc' = [pc EXCEPT ![s] = "location"]
    /\ UNCHANGED <<LocationCustomerMapping, SubContractorEmployees, TimeClock, clock>>

\* The session SELECT raises after the identity was stored by line 118.
IdentifySessionDbError(s) ==
    /\ AtRest(s)
    /\ connections' = [connections EXCEPT ![s] = WithConnection(@)]
    /\ \E sub \in TextInput(Subs) \ {""} :
       \E i \in EmployeesByCookie(SubContractorEmployees, device_id(s)) :
         LET user_data == SubContractorEmployees[i]
         IN  /\ session_state' = [session_state EXCEPT ![s] =
                    RegistrationCheckFailed(
                        [@ EXCEPT !.registered = TRUE,
                                  !.user_name = user_data.Employee,
                                  !.user_number = user_data.Number])]
             /\ run' = [run EXCEPT ![s] =
                    [NoRun EXCEPT !.sub = sub, !.db_error = TRUE]]
    /\ pc' = [pc EXCEPT ![s] = "location"]
    /\ UNCHANGED <<LocationCustomerMapping, SubContractorEmployees, TimeClock, clock>>

----------------------------------------------------------------------------
(* Location handling and geofence gate, lines 145-178 *)

\* Mutant: the flag is cleared once a reading has been stored.
WithLocation_ClearsFlag(ss, location) ==
    [ss EXCEPT !.fetch_location = Some(FALSE), !.loc = location]

\* Lines 146-164: the reading is stored before the site is looked up.
WithLocation(ss, location) ==
    [ss EXCEPT !.fetch_location = Some(TRUE), !.loc = location]

\* Mutant: the st.stop() of the gate is missing.
PassesGate_NoStop(rows, location) == Resolved(location)

\* Lines 172-175: the lookup, and the gate `if not customer: st.stop()`.
PassesGate(rows, location) ==
    /\ Resolved(location)
    /\ find_customer_from_location(rows, location[1], location[2]) # NULL

\* Lines 159-177 of a run that passes the gate.
AtSite(ss, rows, location) ==
    [WithLocation(ss, location) EXCEPT
        !.customer = find_customer_from_location(rows, location[1], location[2])]

\* The provider returned `location`, which is no usable reading: the script
\* falls through to its end.
LocationPendingAt(s, location) ==
    /\ pc[s] = "location"
    /\ UNCHANGED connections
    /\ ~Resolved(location)
    /\ session_state' = [session_state EXCEPT ![s].fetch_location = Some(TRUE)]
    /\ EndRun(s)
    /\ UNCHANGED <<LocationCustomerMapping, SubContractorEmployees, TimeClock, clock>>

LocationPending(s) ==
    \E location \in Geolocation(s) : LocationPendingAt(s, location)

\* find_customer_from_location raises; handled at line 287.
LocationDbError(s) ==
    /\ pc[s] = "location"
    /\ \E connected \in BOOLEAN :
         connections' = [connections EXCEPT ![s] =
                            IF connected THEN WithConnection(@) ELSE @]
    /\ \E location \in Geolocation(s) :
         /\ Resolved(location)
         /\ session_state' = [session_state EXCEPT ![s] = WithLocation(@, location)]
    /\ EndRun(s)
    /\ UNCHANGED <<LocationCustomerMapping, SubContractorEmployees, TimeClock, clock>>

\* "Not a valid job site": st.stop().
LocationInvalid(s) ==
    /\ pc[s] = "location"
    /\ connections' = [connections EXCEPT ![s] = WithConnection(@)]
    /\ \E location \in Geolocation(s) :
         /\ Resolved(location)
         /\ ~PassesGate(LocationCustomerMapping, location)
         /\ session_state' = [session_state EXCEPT ![s] = WithLocation(@, location)]
    /\ EndRun(s)
    /\ UNCHANGED <<LocationCustomerMapping, SubContractorEmployees, TimeClock, clock>>

----------------------------------------------------------------------------
(* Main workflow of a run that passed the gate: clock out, lines 182-199 *)

ClockOutOffered(s) ==
    /\ pc[s] = "location"
    /\ connections' = [connections EXCEPT ![s] = WithConnection(@)]
    /\ session_state[s].registered /\ session_state[s].clocked_in
    /\ \E location \in Geolocation(s) :
         /\ PassesGate(LocationCustomerMapping, location)
         /\ session_state' = [session_state EXCEPT ![s] =
                AtSite(@, LocationCustomerMapping, location)]
    /\ EndRun(s)
    /\ UNCHANGED <<LocationCustomerMapping, SubContractorEmployees, TimeClock, clock>>

ClockOutAt(s, location) ==
    /\ pc[s] = "location"
    /\ connections' = [connections EXCEPT ![s] = WithConnection(@)]
    /\ session_state[s].registered /\ session_state[s].clocked_in
    /\ clock < MaxTime
    /\ location \in Geolocation(s)
    /\ PassesGate(LocationCustomerMapping, location)
    /\ session_state' = [session_state EXCEPT ![s] =
           [AtSite(@, LocationCustomerMapping, location)
               EXCEPT !.clocked_in = FALSE]]
    /\ LET now == clock + 1
       IN  /\ clock' = now
           /\ TimeClock' = ClockOutUpdate(TimeClock, now, session_state[s].user_number)
    /\ EndRun(s)
    /\ UNCHANGED <<LocationCustomerMapping, SubContractorEmployees>>

ClockOut(s) == \E location \in Geolocation(s) : ClockOutAt(s, location)

\* The connection or the UPDATE raises; handled at line 287.
ClockOutDbError(s) ==
    /\ pc[s] = "location"
    /\ connections' = [connections EXCEPT ![s] = WithConnection(@)]
    /\ session_state[s].registered /\ session_state[s].clocked_in
    /\ \E location \in Geolocation(s) :
         /\ PassesGate(LocationCustomerMapping, location)
         /\ session_state' = [session_state EXCEPT ![s] =
                AtSite(@, LocationCustomerMapping, location)]
    /\ EndRun(s)
    /\ UNCHANGED <<LocationCustomerMapping, SubContractorEmployees, TimeClock, clock>>

----------------------------------------------------------------------------
(* Main workflow: clock in, lines 200-219 *)

ClockInOffered(s) ==
    /\ pc[s] = "location"
    /\ connections' = [connections EXCEPT ![s] = WithConnection(@)]
    /\ session_state[s].registered /\ ~session_state[s].clocked_in
    /\ \E location \in Geolocation(s) :
         /\ PassesGate(LocationCustomerMapping, location)
         /\ session_state' = [session_state EXCEPT ![s] =
                AtSite(@, LocationCustomerMapping, location)]
    /\ EndRun(s)
    /\ UNCHANGED <<LocationCustomerMapping, SubContractorEmployees, TimeClock, clock>>

ClockInAt(s, location) ==
    /\ pc[s] = "location"
    /\ connections' = [connections EXCEPT ![s] = WithConnection(@)]
    /\ session_state[s].registered /\ ~session_state[s].clocked_in
    /\ clock < MaxTime
    /\ location \in Geolocation(s)
    /\ PassesGate(LocationCustomerMapping, location)
    /\ session_state' = [session_state EXCEPT ![s] =
           [AtSite(@, LocationCustomerMapping, location)
               EXCEPT !.clocked_in = TRUE]]
    /\ LET now == clock + 1
       IN  /\ clock' = now
           /\ TimeClock' = InsertTimeClock(TimeClock, run[s].sub,
                               session_state[s].user_name,
                               session_state[s].user_number, now,
                               location, device_id(s))
    /\ EndRun(s)
    /\ UNCHANGED <<LocationCustomerMapping, SubContractorEmployees>>

ClockIn(s) == \E location \in Geolocation(s) : ClockInAt(s, location)

\* The connection or the INSERT raises; handled at line 287.
ClockInDbError(s) ==
    /\ pc[s] = "location"
    /\ connections' = [connections EXCEPT ![s] = WithConnection(@)]
    /\ session_state[s].registered /\ ~session_state[s].clocked_in
    /\ \E location \in Geolocation(s) :
         /\ PassesGate(LocationCustomerMapping, location)
         /\ session_state' = [session_state EXCEPT ![s] =
                AtSite(@, LocationCustomerMapping, location)]
    /\ EndRun(s)
    /\ UNCHANGED <<LocationCustomerMapping, SubContractorEmployees, TimeClock, clock>>

----------------------------------------------------------------------------
(* New user registration, lines 220-286 *)

\* No phone number entered, or a new number and the button not pressed.
RegistrationPrompt(s) ==
    /\ pc[s] = "location"
    /\ connections' = [connections EXCEPT ![s] = WithConnection(@)]
    /\ ~session_state[s].registered
    /\ \E number \in TextInput(PhoneNumbers(s)) :
         EmployeesByNumber(SubContractorEmployees, number) = {}
    /\ \E location \in Geolocation(s) :
         /\ PassesGate(LocationCustomerMapping, location)
         /\ session_state' = [session_state EXCEPT ![s] =
                AtSite(@, LocationCustomerMapping, location)]
    /\ EndRun(s)
    /\ UNCHANGED <<LocationCustomerMapping, SubContractorEmployees, TimeClock, clock>>

\* The connection or the SELECT by number raises; handled at line 287.
RegistrationDbError(s) ==
    /\ pc[s] = "location"
    /\ connections' = [connections EXCEPT ![s] = WithConnection(@)]
    /\ ~session_state[s].registered
    /\ TextInput(PhoneNumbers(s)) # {""}
    /\ \E location \in Geolocation(s) :
         /\ PassesGate(LocationCustomerMapping, location)
         /\ session_state' = [session_state EXCEPT ![s] =
                AtSite(@, LocationCustomerMapping, location)]
    /\ EndRun(s)
    /\ UNCHANGED <<LocationCustomerMapping, SubContractorEmployees, TimeClock, clock>>

\* The number has a record: lines 239-261.
RebindAt(s, location) ==
    /\ pc[s] = "location"
    /\ connections' = [connections EXCEPT ![s] = WithConnection(@)]
    /\ ~session_state[s].registered
    /\ location \in Geolocation(s)
    /\ \E number \in TextInput(PhoneNumbers(s)) \ {""} :
       \E i \in EmployeesByNumber(SubContractorEmployees, number) :
         LET existing == SubContractorEmployees[i]
         IN  /\ PassesGate(LocationCustomerMapping, location)
             /\ SubContractorEmployees' =
                    RebindDevice(SubContractorEmployees, device_id(s), number)
             /\ session_state' = [session_state EXCEPT ![s] =
                    [AtSite(@, LocationCustomerMapping, location)
                        EXCEPT !.registered = TRUE,
                               !.user_name = existing.Employee,
                               !.user_number = number,
                               !.clocked_in = (OpenRows(TimeClock, number) # {})]]
    /\ EndRun(s)
    /\ UNCHANGED <<LocationCustomerMapping, TimeClock, clock>>

Rebind(s) == \E location \in Geolocation(s) : RebindAt(s, location)

\* The UPDATE raises (nothing written), or the session SELECT raises after
\* the commit of line 246 (the binding is written, session_state is not).
RebindDbErrorAt(s, location) ==
    /\ pc[s] = "location"
    /\ connections' = [connections EXCEPT ![s] = WithConnection(@)]
    /\ ~session_state[s].registered
    /\ location \in Geolocation(s)
    /\ \E number \in TextInput(PhoneNumbers(s)) \ {""} :
       \E committed \in BOOLEAN :
         /\ PassesGate(LocationCustomerMapping, location)
         /\ EmployeesByNumber(SubContractorEmployees, number) # {}
         /\ SubContractorEmployees' =
                IF committed
                THEN RebindDevice(SubContractorEmployees, device_id(s), number)
                ELSE SubContractorEmployees
         /\ session_state' = [session_state EXCEPT ![s] =
                AtSite(@, LocationCustomerMapping, location)]
    /\ EndRun(s)
    /\ UNCHANGED <<LocationCustomerMapping, TimeClock, clock>>

RebindDbError(s) == \E location \in Geolocation(s) : RebindDbErrorAt(s, location)

\* "Register & Clock In" pressed with a name, for a number the SELECT of
\* line 232 did not find: the two INSERTs and the commit, lines 262-285.
RegisterAndClockInAt(s, location) ==
    /\ pc[s] = "location"
    /\ connections' = [connections EXCEPT ![s] = WithConnection(@)]
    /\ ~session_state[s].registered
    /\ clock < MaxTime
    /\ location \in Geolocation(s)
    /\ \E number \in TextInput(PhoneNumbers(s)) \ {""} :
       \E name \in TextInput(Names) \ {""} :
         LET now == clock + 1
         IN  /\ PassesGate(LocationCustomerMapping, location)
             /\ EmployeesByNumber(SubContractorEmployees, number) = {}
             /\ clock' = now
             /\ SubContractorEmployees' =
                    InsertEmployee(SubContractorEmployees, run[s].sub, name,
                                   number, device_id(s))
             /\ TimeClock' =
                    InsertTimeClock(TimeClock, run[s].sub, name, number,
                                    now, location, device_id(s))
             /\ session_state' = [session_state EXCEPT ![s] =
                    [AtSite(@, LocationCustomerMapping, location)
                        EXCEPT !.registered = TRUE, !.user_name = name,
                               !.user_number = number, !.clocked_in = TRUE]]
    /\ EndRun(s)
    /\ UNCHANGED LocationCustomerMapping

RegisterAndClockIn(s) == \E location \in Geolocation(s) : RegisterAndClockInAt(s, location)

\* An INSERT raises.  DBConnection.__exit__ then commits what the connection
\* has written: nothing if the first INSERT raised, the worker row if the
\* second did (unless that commit fails as well).
RegisterDbErrorAt(s, location) ==
    /\ pc[s] = "location"
    /\ connections' = [connections EXCEPT ![s] = WithConnection(@)]
    /\ ~session_state[s].registered
    /\ location \in Geolocation(s)
    /\ \E number \in TextInput(PhoneNumbers(s)) \ {""} :
       \E name \in TextInput(Names) \ {""} :
       \E committed \in BOOLEAN :
         /\ PassesGate(LocationCustomerMapping, location)
         /\ EmployeesByNumber(SubContractorEmployees, number) = {}
         /\ SubContractorEmployees' =
                IF committed
                THEN InsertEmployee(SubContractorEmployees, run[s].sub, name,
                                    number, device_id(s))
                ELSE SubContractorEmployees
         /\ session_state' = [session_state EXCEPT ![s] =
                AtSite(@, LocationCustomerMapping, location)]
    /\ EndRun(s)
    /\ UNCHANGED <<LocationCustomerMapping, TimeClock, clock>>

RegisterDbError(s) == \E location \in Geolocation(s) : RegisterDbErrorAt(s, location)

----------------------------------------------------------------------------
(* Handle existing location data, lines 291-330 *)

\* Lines 146-149: the flag as `if st.session_state.get("fetch_location")`
\* reads it, set to True when the key is missing.
FetchLocation(ss) == IF ss.fetch_location = NULL THEN TRUE ELSE ss.fetch_location[1]

\* The elif branch: the flag is false and a location is stored.  Clock In and
\* Clock Out work from the stored location, without a reading, a site lookup
\* or an exception handler.  The flag is false in no reachable state (C17),
\* so the branch is not a step of Next.
StoredLocation(s) ==
    /\ pc[s] = "location"
    /\ ~FetchLocation(session_state[s])
    /\ session_state[s].loc # NULL
    /\ \/ /\ UNCHANGED <<SubContractorEmployees, TimeClock, clock,
                          session_state, connections>>
       \/ /\ session_state[s].registered /\ session_state[s].clocked_in
          /\ clock < MaxTime
          /\ clock' = clock + 1
          /\ TimeClock' = ClockOutUpdate(TimeClock, clock + 1,
                                         session_state[s].user_number)
          /\ session_state' = [session_state EXCEPT ![s].clocked_in = FALSE]
          /\ connections' = [connections EXCEPT ![s] = WithConnection(@)]
          /\ UNCHANGED SubContractorEmployees
       \/ /\ session_state[s].registered /\ ~session_state[s].clocked_in
          /\ clock < MaxTime
          /\ clock' = clock + 1
          /\ TimeClock' = InsertTimeClock(TimeClock, run[s].sub,
                              session_state[s].user_name,
                              session_state[s].user_number, clock + 1,
                              session_state[s].loc, device_id(s))
          /\ session_state' = [session_state EXCEPT ![s].clocked_in = TRUE]
          /\ connections' = [connections EXCEPT ![s] = WithConnection(@)]
          /\ UNCHANGED SubContractorEmployees
    /\ EndRun(s)
    /\ UNCHANGED LocationCustomerMapping

----------------------------------------------------------------------------
(* Specifications *)

\* Runs of different browser sessions interleave.
Next ==
    \/ \E s \in Sessions : SubMissing(s)
    \/ \E s \in Sessions : IdentifyFound(s)
    \/ \E s \in Sessions : IdentifyNotFound(s)
    \/ \E s \in Sessions : IdentifyDbError(s)
    \/ \E s \in Sessions : IdentifySessionDbError(s)
    \/ \E s \in Sessions : LocationPending(s)
    \/ \E s \in Sessions : LocationDbError(s)
    \/ \E s \in Sessions : LocationInvalid(s)
    \/ \E s \in Sessions : ClockOutOffered(s)
    \/ \E s \in Sessions : ClockOut(s)
    \/ \E s \in Sessions : ClockOutDbError(s)
    \/ \E s \in Sessions : ClockInOffered(s)
    \/ \E s \in Sessions : ClockIn(s)
    \/ \E s \in Sessions : ClockInDbError(s)
    \/ \E s \in Sessions : RegistrationPrompt(s)
    \/ \E s \in Sessions : RegistrationDbError(s)
    \/ \E s \in Sessions : Rebind(s)
    \/ \E s \in Sessions : RebindDbError(s)
    \/ \E s \in Sessions : RegisterAndClockIn(s)
    \/ \E s \in Sessions : RegisterDbError(s)

Spec == Init /\ [][Next]_vars

\* Strictly sequential request cycles: a session takes a step only while no
\* other session is in the middle of a run.
Alone(s) == \A t \in Sessions \ {s} : AtRest(t)

NextSeq ==
    \/ \E s \in Sessions : Alone(s) /\ SubMissing(s)
    \/ \E s \in Sessions : Alone(s) /\ IdentifyFound(s)
    \/ \E s \in Sessions : Alone(s) /\ IdentifyNotFound(s)
    \/ \E s \in Sessions : Alone(s) /\ IdentifyDbError(s)
    \/ \E s \in Sessions : Alone(s) /\ IdentifySessionDbError(s)
    \/ \E s \in Sessions : Alone(s) /\ LocationPending(s)
    \/ \E s \in Sessions : Alone(s) /\ LocationDbError(s)
    \/ \E s \in Sessions : Alone(s) /\ LocationInvalid(s)
    \/ \E s \in Sessions : Alone(s) /\ ClockOutOffered(s)
    \/ \E s \in Sessions : Alone(s) /\ ClockOut(s)
    \/ \E s \in Sessions : Alone(s) /\ ClockOutDbError(s)
    \/ \E s \in Sessions : Alone(s) /\ ClockInOffered(s)
    \/ \E s \in Sessions : Alone(s) /\ ClockIn(s)
    \/ \E s \in Sessions : Alone(s) /\ ClockInDbError(s)
    \/ \E s \in Sessions : Alone(s) /\ RegistrationPrompt(s)
    \/ \E s \in Sessions : Alone(s) /\ RegistrationDbError(s)
    \/ \E s \in Sessions : Alone(s) /\ Rebind(s)
    \/ \E s \in Sessions : Alone(s) /\ RebindDbError(s)
    \/ \E s \in Sessions : Alone(s) /\ RegisterAndClockIn(s)
    \/ \E s \in Sessions : Alone(s) /\ RegisterDbError(s)

SeqSpec == Init /\ [][NextSeq]_vars

----------------------------------------------------------------------------
(* Properties *)

\* The step ends the run of s with a clock-in written (Clock In, or
\* Register & Clock In), resp. with a clock-out written.
ClockInDone(s) ==
    /\ pc[s] = "location" /\ pc'[s] = "idle"
    /\ clock' = clock + 1
    /\ session_state'[s].clocked_in

ClockOutDone(s) ==
    /\ pc[s] = "location" /\ pc'[s] = "idle"
    /\ clock' = clock + 1
    /\ ~session_state'[s].clocked_in

\* The point lies strictly inside the box of the row, the longitude bounds
\* taken in either order.
StrictlyInside(row, lat, lon) ==
    /\ row.min_latitude < lat /\ lat < row.max_latitude
    /\ \/ row.min_longitude < lon /\ lon < row.max_longitude
       \/ row.max_longitude < lon /\ lon < row.min_longitude

\* C1: a reading strictly inside exactly one site's box is located at that
\* site, whichever of min_longitude and max_longitude is the larger (stated
\* for the readings the sessions have handled).
C1_InsideOneBoxLocated ==
    \A s \in Sessions :
        LET p == session_state[s].loc
            inside == {i \in DOMAIN LocationCustomerMapping :
                          StrictlyInside(LocationCustomerMapping[i], p[1], p[2])}
        IN  (p # NULL /\ Cardinality(inside) = 1) =>
              \A i \in inside :
                  find_customer_from_location(LocationCustomerMapping, p[1], p[2])
                      = Some(LocationCustomerMapping[i].customer_name)

\* C2: under sequential request cycles every worker number has at most one
\* TimeClock row with ClockOut unset.
C2_AtMostOneOpenSession ==
    \A n \in Numbers : Cardinality(OpenRows(TimeClock, n)) <= 1

\* A number has a closed session and, after it, an open one.
C2_Witness ==
    \E i, j \in DOMAIN TimeClock :
        /\ i < j
        /\ TimeClock[i].Number = TimeClock[j].Number
        /\ TimeClock[i].ClockOut # NULL
        /\ TimeClock[j].ClockOut = NULL

\* C3: when the reading resolves and the geofence lookup returns no site the
\* cycle halts, i.e. a step that inserts or updates a TimeClock or
\* SubContractorEmployees row belongs to a session whose reading of that
\* cycle resolved to a site.
C3_GeofenceMissWritesNothing ==
    [][(TimeClock' # TimeClock \/ SubContractorEmployees' # SubContractorEmployees)
        => \E s \in Sessions :
             LET p == session_state'[s].loc
             IN  /\ pc[s] = "location" /\ pc'[s] = "idle"
                 /\ p # NULL
                 /\ find_customer_from_location(LocationCustomerMapping,
                                                p[1], p[2]) # NULL]_vars

\* A worker with an open session was turned away off site: the session is
\* still open and the session's last reading has no site.
C3_Witness ==
    \E s \in Sessions :
        LET p == session_state[s].loc
        IN  /\ pc[s] = "idle"
            /\ session_state[s].registered /\ session_state[s].clocked_in
            /\ OpenRows(TimeClock, session_state[s].user_number) # {}
            /\ p # NULL
            /\ find_customer_from_location(LocationCustomerMapping, p[1], p[2]) = NULL

\* C4: the open-session check and the clock-in insert are not atomic: a
\* session that passed the check (no open session when it looked) and clocks
\* in adds an open row for its number whatever the ledger holds by then, so
\* two interleaved cycles leave two open sessions.
C4_InsertDoesNotRecheck ==
    [][\A s \in Sessions :
          (/\ ClockInDone(s)
           /\ session_state[s].registered /\ ~session_state[s].clocked_in)
          => LET n == session_state[s].user_number
             IN  Cardinality(OpenRows(TimeClock', n))
                   = Cardinality(OpenRows(TimeClock, n)) + 1]_vars

\* The ledger holds two open sessions for one number.
C4_Witness ==
    \E n \in Numbers : Cardinality(OpenRows(TimeClock, n)) >= 2

\* C5: after a clock-in for N the open-session lookup for N returns that
\* clock-in's timestamp; after a clock-out for N at T the open rows of N keep
\* their ClockIn, have ClockOut = T, and the lookup returns none.
C5_LookupFollowsClockInOut ==
    [][\A s \in Sessions :
          LET n == session_state'[s].user_number
          IN  /\ ClockInDone(s) =>
                    ActiveSession(TimeClock', n) = Some(clock')
              /\ ClockOutDone(s) =>
                    /\ ActiveSession(TimeClock', n) = NULL
                    /\ Len(TimeClock') = Len(TimeClock)
                    /\ \A i \in OpenRows(TimeClock, n) :
                          /\ TimeClock'[i].ClockIn = TimeClock[i].ClockIn
                          /\ TimeClock'[i].ClockOut = Some(clock')]_vars

\* A session clocked in at one time was clocked out at a later one and the
\* lookup for its number returns none.
C5_Witness ==
    \E i \in DOMAIN TimeClock :
        /\ TimeClock[i].ClockOut # NULL
        /\ TimeClock[i].ClockOut[1] > TimeClock[i].ClockIn
        /\ ActiveSession(TimeClock, TimeClock[i].Number) = NULL

\* C6: a cycle in which a data-store operation failed (the device-identity
\* lookup in particular) inserts no clock-in row and writes no clock-out.
C6_DbErrorFailsClosed ==
    [][\A s \in Sessions :
          (run[s].db_error /\ pc[s] = "location" /\ pc'[s] = "idle")
          => TimeClock' = TimeClock]_vars

\* The step binds the device of s to the existing record of the entered number.
RebindDone(s) ==
    /\ pc[s] = "location" /\ pc'[s] = "idle"
    /\ ~session_state[s].registered /\ session_state'[s].registered
    /\ clock' = clock

\* C7: under sequential cycles each phone number has at most one
\* SubContractorEmployees row, and entering a number that has a record adds
\* no record: the record is bound to the current device and its identity is
\* adopted.
C7_NumberHasOneRecord ==
    [][/\ \A n \in Numbers :
            Cardinality(EmployeesByNumber(SubContractorEmployees', n)) <= 1
       /\ \A s \in Sessions :
            RebindDone(s) =>
              LET n == session_state'[s].user_number
              IN  /\ Len(SubContractorEmployees') = Len(SubContractorEmployees)
                  /\ EmployeesByNumber(SubContractorEmployees, n) # {}
                  /\ \A i \in EmployeesByNumber(SubContractorEmployees, n) :
                        /\ SubContractorEmployees'[i] =
                             [SubContractorEmployees[i] EXCEPT
                                 !.Cookies = device_id(s)]
                        /\ session_state'[s].user_name =
                             SubContractorEmployees[i].Employee]_vars

\* A worker who registered and clocked in from one device is now bound to,
\* and identified on, another.
C7_Witness ==
    \E s \in Sessions : \E i \in DOMAIN SubContractorEmployees :
    \E j \in DOMAIN TimeClock :
        /\ SubContractorEmployees[i].Cookies = device_id(s)
        /\ session_state[s].registered
        /\ session_state[s].user_number = SubContractorEmployees[i].Number
        /\ TimeClock[j].Number = SubContractorEmployees[i].Number
        /\ TimeClock[j].Cookie # device_id(s)

\* C8: no TimeClock row is ever deleted, no field other than ClockOut ever
\* changes, and a ClockOut that is set never changes again.
C8_RowsCloseOnce ==
    [][/\ Len(TimeClock') >= Len(TimeClock)
       /\ \A i \in DOMAIN TimeClock :
            /\ TimeClock'[i] =
                 [TimeClock[i] EXCEPT !.ClockOut = TimeClock'[i].ClockOut]
            /\ TimeClock[i].ClockOut # NULL => TimeClock'[i] = TimeClock[i]]_vars

\* The latest clock-out found no open row (no row carries its timestamp)
\* and a closed row is in the ledger.
C8_Witness ==
    /\ clock > 0
    /\ \A i \in DOMAIN TimeClock :
          TimeClock[i].ClockIn # clock /\ TimeClock[i].ClockOut # Some(clock)
    /\ \E i \in DOMAIN TimeClock : TimeClock[i].ClockOut # NULL

\* C9: a clock-out for N sets ClockOut to one timestamp on every row of N
\* whose ClockOut is unset, however many there are, and changes no other row.
C9_ClockOutClosesAllOpen ==
    [][\A s \in Sessions :
          ClockOutDone(s) =>
            LET n == session_state[s].user_number
            IN  /\ Len(TimeClock') = Len(TimeClock)
                /\ \A i \in DOMAIN TimeClock :
                      TimeClock'[i] =
                        IF i \in OpenRows(TimeClock, n)
                        THEN [TimeClock[i] EXCEPT !.ClockOut = Some(clock')]
                        ELSE TimeClock[i]]_vars

\* Two sessions of one number were closed by the same clock-out.
C9_Witness ==
    \E i, j \in DOMAIN TimeClock :
        /\ i # j
        /\ TimeClock[i].Number = TimeClock[j].Number
        /\ TimeClock[i].ClockOut # NULL
        /\ TimeClock[i].ClockOut = TimeClock[j].ClockOut

\* The step is a completed Register & Clock In of s.
RegisterDone(s) ==
    /\ pc[s] = "location" /\ pc'[s] = "idle"
    /\ ~session_state[s].registered /\ session_state'[s].registered
    /\ clock' = clock + 1

\* C10: from a registry without the number and a device bound to no worker,
\* a completed Register & Clock In leaves exactly one record for the number,
\* bound to the device, and exactly one open session for the number.
C10_RegisterCreatesWorkerAndSession ==
    [][\A s \in Sessions :
          LET n == session_state'[s].user_number
          IN  (/\ RegisterDone(s)
               /\ EmployeesByNumber(SubContractorEmployees, n) = {}
               /\ EmployeesByCookie(SubContractorEmployees, device_id(s)) = {})
              => /\ Cardinality(EmployeesByNumber(SubContractorEmployees', n)) = 1
                 /\ \A i \in EmployeesByNumber(SubContractorEmployees', n) :
                       SubContractorEmployees'[i].Cookies = device_id(s)
                 /\ Cardinality(OpenRows(TimeClock', n)) = 1]_vars

\* A device bound to one worker only, whose record and open session it
\* created.
C10_Witness ==
    \E s \in Sessions :
        LET n == session_state[s].user_number
        IN  /\ session_state[s].registered /\ session_state[s].clocked_in
            /\ Cardinality(EmployeesByCookie(SubContractorEmployees, device_id(s))) = 1
            /\ \E i \in EmployeesByNumber(SubContractorEmployees, n) :
                  SubContractorEmployees[i].Cookies = device_id(s)
            /\ \E j \in OpenRows(TimeClock, n) :
                  /\ TimeClock[j].Cookie = device_id(s)
                  /\ \A k \in DOMAIN TimeClock : TimeClock[k].Number = n => k = j

\* C11: every connection acquired through get_connection() is closed when
\* its with-block ends, normally or by an exception, so a session holds no
\* open connection after a with-block of one of its cycles.
C11_ConnectionsReleased ==
    \A s \in Sessions : \A conn \in connections[s] : conn.closed

\* Points the lookup is probed with: the readings, the corners and edges of
\* the boxes, and points just outside them.
Probes ==
    Points \cup
    { <<10, -100>>, <<20, -90>>, <<10, -90>>, <<20, -100>>, <<15, -100>>,
      <<15, -90>>, <<15, -101>>, <<15, -89>>, <<9, -95>>, <<21, -95>>,
      <<5, -90>>, <<-5, -100>>, <<6, -95>>, <<-6, -95>>, <<0, -101>> }

\* x lies between a and b inclusive, whichever is the larger.
Between(x, a, b) == (a <= x /\ x <= b) \/ (b <= x /\ x <= a)

\* The point lies in the box of the row, bounds included.
InBox(row, lat, lon) ==
    /\ row.min_latitude <= lat /\ lat <= row.max_latitude
    /\ Between(lon, row.min_longitude, row.max_longitude)

\* The point lies strictly outside the box of the row.
StrictlyOutside(row, lat, lon) ==
    \/ lat < row.min_latitude \/ lat > row.max_latitude
    \/ lon < row.min_longitude /\ lon < row.max_longitude
    \/ lon > row.min_longitude /\ lon > row.max_longitude

\* C12: for a site whose min_longitude is greater than its max_longitude the
\* lookup returns the site exactly when the latitude is within
\* [min_latitude, max_latitude] and the longitude lies between the two
\* longitude bounds inclusive.
C12_DescendingBoundsClassified ==
    \A p \in Probes : \A i \in DOMAIN LocationCustomerMapping :
        LET row == LocationCustomerMapping[i]
        IN  row.min_longitude > row.max_longitude =>
              ( find_customer_from_location(LocationCustomerMapping, p[1], p[2])
                    = Some(row.customer_name)
                <=> InBox(row, p[1], p[2]) )

\* A session was located at a site whose min_longitude is the larger bound.
C12_Witness ==
    \E s \in Sessions : \E i \in DOMAIN LocationCustomerMapping :
        LET row == LocationCustomerMapping[i]
            p == session_state[s].loc
        IN  /\ row.min_longitude > row.max_longitude
            /\ p # NULL
            /\ InBox(row, p[1], p[2])
            /\ session_state[s].customer = Some(row.customer_name)

\* C13: for a point strictly outside every registered box, and for every
\* point when the site table is empty, the lookup returns none; with "Yard A"
\* lat[10,20] lon[-100,-90] the point (25, -95) has no site.
C13_OutsideAllBoxesNone ==
    \A p \in Probes :
        (\A i \in DOMAIN LocationCustomerMapping :
            StrictlyOutside(LocationCustomerMapping[i], p[1], p[2]))
        => find_customer_from_location(LocationCustomerMapping, p[1], p[2]) = NULL

\* With Yard A registered, one session was turned away at (25, -95) while
\* another was located at a site.
C13_Witness ==
    \E s, t \in Sessions :
        /\ \E i \in DOMAIN LocationCustomerMapping :
              LocationCustomerMapping[i].customer_name = "Yard A"
        /\ pc[s] = "idle"
        /\ session_state[s].loc = <<25, -95>>
        /\ session_state[s].customer = NULL
        /\ session_state[t].customer # NULL

\* C14: a cycle without a subcontractor name is blocked before the
\* identification: no run is past the name check without a name, and the
\* cycle that stops there looks nobody up, requests no location and leaves
\* the store, the session state and the connections as they were.
C14_SubMissingBlocks ==
    [][\A s \in Sessions :
          /\ pc'[s] = "location" => run'[s].sub # ""
          /\ (pc[s] # "stopped" /\ pc'[s] = "stopped") =>
                UNCHANGED <<LocationCustomerMapping, SubContractorEmployees,
                            TimeClock, clock, session_state, connections>>]_vars

\* A clocked-in worker's cycle was stopped for want of the name; the worker's
\* session is still open.
C14_Witness ==
    \E s \in Sessions :
        /\ pc[s] = "stopped"
        /\ session_state[s].registered /\ session_state[s].clocked_in
        /\ OpenRows(TimeClock, session_state[s].user_number) # {}

\* C15: the action a cycle offers matches the open-session lookup of that
\* same cycle: Clock Out can be offered only when the lookup ran and returned
\* a row, Clock In only when it ran and returned none; a status left in the
\* session state by an earlier cycle offers nothing.
C15_OfferMatchesLookup ==
    \A s \in Sessions :
        /\ ENABLED ClockOutOffered(s) =>
              run[s].active_defined /\ run[s].active_session # NULL
        /\ ENABLED ClockInOffered(s) =>
              run[s].active_defined /\ run[s].active_session = NULL

\* Clock Out is offered to a session whose lookup of this cycle returned the
\* open row's clock-in time, while a cycle whose registration check failed,
\* in a session an earlier cycle left clocked in, is not offered it.
C15_Witness ==
    \E s, t \in Sessions :
        /\ ENABLED ClockOutOffered(s)
        /\ \E j \in OpenRows(TimeClock, session_state[s].user_number) :
              run[s].active_session = Some(TimeClock[j].ClockIn)
        /\ pc[t] = "location"
        /\ run[t].db_error
        /\ session_state[t].clocked_in
        /\ ~ENABLED ClockOutOffered(t)

\* C16: a cycle whose reading lies inside a registered site, a latitude or
\* longitude of 0 included, does not stay at "share your location": the
\* reading passes the gate and the workflow action is presented.
C16_ReadingInsideSiteProceeds ==
    \A s \in Sessions : \A location \in Points :
        ( /\ pc[s] = "location"
          /\ find_customer_from_location(LocationCustomerMapping,
                                         location[1], location[2]) # NULL )
        => /\ ~ENABLED LocationPendingAt(s, location)
           /\ PassesGate(LocationCustomerMapping, location)

\* C17: a cycle without a geolocation reading writes no clock-in, clock-out,
\* rebind or registration, also when an earlier cycle stored a location and a
\* site: with no reading none of the writing steps can be taken, the step
\* that is taken leaves the tables alone, and the branch that works from the
\* stored location is never entered.
C17_NoReadingBlocks ==
    \A s \in Sessions :
        /\ ~ENABLED StoredLocation(s)
        /\ ~ENABLED ( \/ ClockInAt(s, NULL) \/ ClockOutAt(s, NULL)
                      \/ RebindAt(s, NULL) \/ RebindDbErrorAt(s, NULL)
                      \/ RegisterAndClockInAt(s, NULL)
                      \/ RegisterDbErrorAt(s, NULL) )
        /\ ~ENABLED ( /\ LocationPendingAt(s, NULL)
                      /\ \/ TimeClock' # TimeClock
                         \/ SubContractorEmployees' # SubContractorEmployees )

\* A registered, clocked-in worker whose earlier cycle stored a location and
\* a site is in a cycle that can get no reading.
C17_Witness ==
    \E s \in Sessions :
        /\ pc[s] = "location"
        /\ session_state[s].registered /\ session_state[s].clocked_in
        /\ session_state[s].loc # NULL
        /\ session_state[s].customer # NULL
        /\ ENABLED LocationPendingAt(s, NULL)

\* C18: Register & Clock In is all-or-nothing: a step that adds a worker
\* record also adds the open session of that worker, so a failure of the
\* session insert leaves no worker record behind.
C18_RegisterAllOrNothing ==
    [][Len(SubContractorEmployees') > Len(SubContractorEmployees) =>
          LET worker == SubContractorEmployees'[Len(SubContractorEmployees')]
          IN  /\ Len(TimeClock') = Len(TimeClock) + 1
              /\ TimeClock'[Len(TimeClock')].Number = worker.Number
              /\ TimeClock'[Len(TimeClock')].ClockOut = NULL]_vars

\* C19: under sequential cycles, cycles whose identity lookup fails
\* included, each device identifier is bound to at most one worker record.
C19_DeviceHasOneRecord ==
    \A s \in Sessions :
        Cardinality(EmployeesByCookie(SubContractorEmployees, device_id(s))) <= 1

====
